---- MODULE Spec2Model ----
(***************************************************************************)
(* A model of the context-retrieval engine of Gaello-Graph-Actions          *)
(* (src/builder/worker.py, parser.py, ops.py; src/queries/subimtor.py;      *)
(* src/builder/executor.py).                                                *)
(*                                                                         *)
(* Python values are records carrying their type in the field tag, so that  *)
(* None, truthiness and hashability are decided as Python decides them.     *)
(* A text is the sequence of the tokens the NLP engine splits it into.      *)
(***************************************************************************)
EXTENDS Integers, Sequences, FiniteSets, TLC

-----------------------------------------------------------------------------
(* Bounds of the model *)

MaxNodes == 2       \* nodes in the store, nodes in a batch
MaxCands == 2       \* candidates handed to parallel_search
MaxCalls == 2       \* calls of the same operation with the same arguments
MaxLimit == 2       \* fetch_limit of a direct find_first_match call
MaxArgs == 3        \* keyword lists handed to kwds_similarity
MaxCacheCalls == 3  \* cache_parse calls made once the cache is one short of full
MaxTokens == 3      \* tokens of a text handed to Parser.parse
MaxRetries == 2     \* retries of a TrendEngine
MaxKeys == 2        \* keys of KEYWORDS_MAP

-----------------------------------------------------------------------------
(* Program constants (worker.py:16-22) *)

CACHE_SIZE == 128
FETCH_LIMIT == 100
SEARCH_DEPTH == 2
CORE_MULTIPLIER == 2
\* MATCH_THRESHOLD = 0.4 and FILTER_THRESHOLD = 0.6 as exact fractions
MATCH_THRESHOLD_NUM == 2
MATCH_THRESHOLD_DEN == 5
FILTER_THRESHOLD_NUM == 3
FILTER_THRESHOLD_DEN == 5
\* multiprocessing.cpu_count() of the machine
CpuCores == 1

-----------------------------------------------------------------------------
(* Python values *)

None == [tag |-> "None"]
PyStr(s) == [tag |-> "str", val |-> s]
PyList(s) == [tag |-> "list", val |-> s]
PyTuple(s) == [tag |-> "tuple", val |-> s]
\* a dict is the sequence of its items, in insertion order
PyDict(items) == [tag |-> "dict", val |-> items]
\* a hashable mapping with the dict interface (.items())
PyFrozenMap(items) == [tag |-> "frozenmap", val |-> items]

\* bool(v)
Truthy(v) ==
    CASE v.tag = "None" -> FALSE
      [] v.tag = "str" -> v.val # ""
      [] OTHER -> v.val # <<>>

\* hash(v) succeeds: a list and a dict are unhashable
Hashable(v) == v.tag \in {"None", "str", "tuple", "frozenmap"}

Returned(v) == [kind |-> "return", val |-> v]
Raised(e) == [kind |-> "raise", exc |-> e]

Min(a, b) == IF a <= b THEN a ELSE b

SeqToSet(s) == {s[i] : i \in DOMAIN s}

-----------------------------------------------------------------------------
(* The NLP engine: tokens, their attributes, the stop words, the tagger *)

\* token.is_alpha
IsAlpha(tok) == tok \notin {"42"}

\* token.text.lower()
Lower(tok) ==
    CASE tok = "The" -> "the"
      [] tok = "Dog" -> "dog"
      [] OTHER -> tok

\* nlp.Defaults.stop_words
StopWords == {"the"}

\* token.pos_ == 'NOUN'
IsNoun(tok) == tok \in {"cat", "dog", "catdog", "dogcat"}

\* nlp(s) for a string without white space: one token
Tokenize(s) == IF s = "" THEN <<>> ELSE <<s>>

-----------------------------------------------------------------------------
(* Parser (parser.py) *)

\* "".join(...): the tokens are joined with the empty string
RECURSIVE JoinTokens(_)
JoinTokens(toks) ==
    IF toks = <<>> THEN "" ELSE Head(toks) \o JoinTokens(Tail(toks))

\* KeepToken with the stop-word test on the token as written, not lowered
KeepToken_CaseSensitive(tok) == IsAlpha(tok) /\ tok \notin StopWords

KeepToken(tok) == IsAlpha(tok) /\ Lower(tok) \notin StopWords

minimize_tokens_count(doc) == JoinTokens(SelectSeq(doc, KeepToken))

get_nouns_only(doc) == SelectSeq(doc, IsNoun)

parse(qx) ==
    LET min_qx == minimize_tokens_count(qx)
    IN  IF min_qx = "" THEN None
        ELSE PyList(get_nouns_only(Tokenize(min_qx)))

-----------------------------------------------------------------------------
(* kwds_similarity (ops.py) *)

RECURSIVE IntersectAll(_)
IntersectAll(kwds) ==
    IF Len(kwds) = 1 THEN SeqToSet(kwds[1].val)
    ELSE IntersectAll(SubSeq(kwds, 1, Len(kwds) - 1))
             \cap SeqToSet(kwds[Len(kwds)].val)

MinLen(kwds) ==
    CHOOSE m \in {Len(kwds[i].val) : i \in DOMAIN kwds} :
        \A i \in DOMAIN kwds : m <= Len(kwds[i].val)

\* kwds_similarity dividing by the length of the first list, not the shortest
kwds_similarity_FirstLen(kwds) ==
    IF kwds = <<>> THEN Returned([num |-> 0, den |-> 1])
    ELSE IF \E i \in DOMAIN kwds : kwds[i].tag = "None" THEN Raised("TypeError")
    ELSE IF Len(kwds[1].val) = 0 THEN Returned([num |-> 0, den |-> 1])
    ELSE Returned([num |-> Cardinality(IntersectAll(kwds)), den |-> Len(kwds[1].val)])

\* kwds_similarity without the test of line 38: an empty list makes the division
\* of line 44 a division by zero
kwds_similarity_NoEmptyTest(kwds) ==
    IF kwds = <<>> THEN Returned([num |-> 0, den |-> 1])
    ELSE IF \E i \in DOMAIN kwds : kwds[i].tag = "None" THEN Raised("TypeError")
    ELSE IF MinLen(kwds) = 0 THEN Raised("ZeroDivisionError")
    ELSE Returned([num |-> Cardinality(IntersectAll(kwds)), den |-> MinLen(kwds)])

\* the score as the fraction num/den; set(None) and len(None) raise TypeError
kwds_similarity(kwds) ==
    IF kwds = <<>> THEN Returned([num |-> 0, den |-> 1])
    ELSE IF \E i \in DOMAIN kwds : kwds[i].tag = "None" THEN Raised("TypeError")
    ELSE IF MinLen(kwds) = 0 THEN Returned([num |-> 0, den |-> 1])
    ELSE Returned([num |-> Cardinality(IntersectAll(kwds)), den |-> MinLen(kwds)])

\* score > MATCH_THRESHOLD
AboveMatchThreshold(score) ==
    score.num * MATCH_THRESHOLD_DEN > MATCH_THRESHOLD_NUM * score.den

-----------------------------------------------------------------------------
(* functools.lru_cache: the entries [k, v] in order of use, least recent first *)

CacheIndex(cache, k) ==
    IF \E i \in DOMAIN cache : cache[i].k = k
    THEN CHOOSE i \in DOMAIN cache : cache[i].k = k
    ELSE 0

RemoveAt(s, i) == SubSeq(s, 1, i - 1) \o SubSeq(s, i + 1, Len(s))

\* LruTouch without the move: a hit leaves the order as it is (first in, first out)
LruTouch_NoRefresh(cache, k) == cache

\* a hit moves the entry to the most recent place
LruTouch(cache, k) ==
    LET i == CacheIndex(cache, k) IN Append(RemoveAt(cache, i), cache[i])

\* a miss stores the computed value, dropping the least recent entry when full
LruInsert(cache, k, v) ==
    LET e == [k |-> k, v |-> v]
    IN  IF Len(cache) >= CACHE_SIZE THEN Append(Tail(cache), e)
        ELSE Append(cache, e)

\* cache_parse(qx): the value returned and the cache afterwards
cache_parse(cache, qx) ==
    LET i == CacheIndex(cache, qx)
    IN  IF i # 0 THEN [val |-> cache[i].v, cache |-> LruTouch(cache, qx)]
        ELSE [val |-> parse(qx), cache |-> LruInsert(cache, qx, parse(qx))]

\* match_nodes(id, node1_kwds, node2_kwds)
match_nodes(id, node1_kwds, node2_kwds) ==
    LET r == kwds_similarity(<<node1_kwds, node2_kwds>>)
    IN  IF r.kind = "raise" THEN r
        ELSE IF AboveMatchThreshold(r.val) THEN Returned(PyStr(id))
        ELSE Returned(None)

\* min(32, self.cpu_cores * CORE_MULTIPLIER)
max_workers == Min(32, CpuCores * CORE_MULTIPLIER)

-----------------------------------------------------------------------------
(* The inputs *)

NodeId(i) == "n" \o ToString(i)

RequestTexts == {<<"cat">>, <<"The">>, <<"run">>}
ContentTexts == {<<"cat">>, <<"cat", "dog">>, <<"the">>}

Node(i, text) == [id |-> NodeId(i), content |-> text]

\* the batches of n nodes, node i carrying the i-th id
Batches(n) == {[i \in 1..n |-> Node(i, c[i])] : c \in [1..n -> ContentTexts]}

\* the stores: the nodes in order of recency, most recent first
Stores == UNION {Batches(n) : n \in 0..MaxNodes}

\* the lists of restricted words, in lower case and capitalised
RestrictedWords == {<<>>, <<"dog">>, <<"Dog">>}

Modes == {"unrestricted", "restricted", "filtered", "other"}

EngineCalls ==
    {[op |-> "context", request |-> r, mode |-> m, restricted_words |-> w,
      fetch_limit |-> FETCH_LIMIT] :
         r \in RequestTexts, m \in Modes, w \in RestrictedWords}
    \cup
    {[op |-> "find_first_match", request |-> r, mode |-> "", restricted_words |-> <<>>,
      fetch_limit |-> l] :
         r \in RequestTexts, l \in 1..MaxLimit}

\* the keyword lists of the direct calls of kwds_similarity: empty, one word, a
\* word twice (the extractor keeps the repetitions), two words in both orders,
\* and None (what cache_parse returns for a text without keywords)
KwdArgs == {PyList(<<>>), PyList(<<"cat">>), PyList(<<"cat", "cat">>),
            PyList(<<"cat", "dog">>), PyList(<<"dog", "cat">>), None}

SimilarityCalls ==
    {[op |-> "kwds_similarity", kwds |-> k] :
        k \in UNION {[1..n -> KwdArgs] : n \in 0..MaxArgs}}

\* the tokens of the texts handed to Parser.parse: nouns, a stop word in lower
\* case and capitalised, a verb, a number
Vocabulary == {"cat", "dog", "the", "The", "run", "42"}

ParseCalls ==
    {[op |-> "parse", qx |-> t] :
        t \in UNION {[1..n -> Vocabulary] : n \in 0..MaxTokens}}

\* the direct calls of filter_context_by_relevance: the context is None or a list
\* of document strings
FilterCalls ==
    {[op |-> "filter_context_by_relevance", request |-> r, context |-> c] :
        r \in RequestTexts,
        c \in {None} \cup {PyList(d) : d \in UNION {[1..n -> ContentTexts] : n \in 0..MaxNodes}}}

\* the i-th of the texts that fill the keyword cache: the binary digits of i, the
\* word dog for 1 and the word cat for 0, so that no two of the texts are equal
RECURSIVE FillText(_)
FillText(i) ==
    IF i = 0 THEN <<>>
    ELSE Append(FillText(i \div 2), IF i % 2 = 1 THEN "dog" ELSE "cat")

\* the texts of the cache_parse calls made once the cache is one short of full:
\* the two least recent entries, the most recent one, and two new texts
CacheTexts == {FillText(1), FillText(2), FillText(CACHE_SIZE - 1),
               FillText(CACHE_SIZE), FillText(CACHE_SIZE + 1)}

-----------------------------------------------------------------------------
(* The trends fetcher: its constants and inputs (trends/static.py, engine.py) *)

\* DEFAULT_KEYWORDS
DEFAULT_KEYWORDS ==
    <<"Apple", "trending stocks", "stock market", "commodities tarding",
      "forex trading", "trending news", "trending cryptos", "futures">>

\* KEYWORDS_MAP as the sequence of its items: the one of static.py:17-19, and
\* longer ones with further keys
MapKey(i) == "other_finance_" \o ToString(i)
MapKeywords(i) ==
    IF i = 1 THEN <<"Apple", "market", "stocks", "options", "performances">>
    ELSE <<"keyword " \o ToString(i), "market">>
KEYWORDS_MAP(n) == [i \in 1..n |-> [key |-> MapKey(i), kwds |-> MapKeywords(i)]]

\* what pytrends answers a request with: data for the keywords, no data, or one
\* of its exceptions; ConnectionError stands for every other exception
Responses == {"data", "empty", "TooManyRequestsError", "ResponseError", "ConnectionError"}

\* TrendEngine(keywords, retries=r).get_trends() against a KEYWORDS_MAP of n keys.
\* subclass: whether the TooManyRequestsError that engine.py:9 imports is a
\* subclass of the ResponseError it imports; pytrends is not part of the
\* repository, so both libraries are inputs
TrendCalls ==
    {[op |-> "get_trends", keywords |-> k, retries |-> r, map |-> KEYWORDS_MAP(n),
      subclass |-> b] :
        k \in {DEFAULT_KEYWORDS, <<"gold", "oil", "gas">>},
        r \in 0..MaxRetries, n \in 1..MaxKeys, b \in BOOLEAN}

\* no call of get_trends yet.  where: the line of get_trends that called
\* related_queries_payload ("first": 167, "shrunk": 175, "rotate": 193); sent: the
\* answers to the requests of the wrapper call under way; wrappers: the wrapper
\* calls that have ended, with the keywords they sent and how they ended
NoTrend == [keywords |-> <<>>, result |-> None, where |-> "none", attempt |-> 0,
            sent |-> <<>>, wrappers |-> <<>>, iteration |-> 0, explored |-> <<>>]

-----------------------------------------------------------------------------
(* The state *)

VARIABLES
    store,          \* the nodes of the graph, most recent first
    store_up,       \* whether the store answers the queries it is sent
    trend,          \* the TrendEngine: its attributes and the locals of get_trends
    parse_cache,    \* the lru_cache of cache_parse
    pe_cache,       \* the lru_cache of parallel_extraction
    ps_cache,       \* the lru_cache of parallel_search
    call,           \* the operation the caller invoked, with its arguments
    pc,             \* where the call stands
    ffm,            \* the local variables of find_first_match
    fetches,        \* the pages the call has fetched: [start, limit] each
    pool,           \* the ThreadPoolExecutor of the running stage and its futures
    submitted,      \* the tasks the call has submitted to a worker pool
    outcome,        \* how the call ended
    first,          \* how the first call with these arguments ended
    ncalls          \* the calls made with these arguments

vars == <<store, store_up, trend, parse_cache, pe_cache, ps_cache, call, pc, ffm, fetches,
          pool, submitted, outcome, first, ncalls>>

\* result: how find_first_match ended
NoFfm == [offset |-> 0, round |-> 0, match |-> None, target_kwds |-> None,
          nodes |-> None, nodes_kwds |-> None, result |-> [kind |-> "none"]]
NoOutcome == [kind |-> "none"]

\* no pool: fn is the stage ("pe", "ps"); args its arguments; tasks the futures
\* in order of submission; completed the indices of the futures in order of
\* completion; iterating whether as_completed has been called, and early the
\* futures that were finished when it was; handed the futures as_completed has
\* handed out, in order; observed the result that ends the loop of
\* parallel_search (line 146); pending the outcome the with block is leaving with
NoPool == [fn |-> "none", args |-> <<>>, tasks |-> <<>>, completed |-> <<>>,
           iterating |-> FALSE, early |-> {}, handed |-> <<>>,
           observed |-> NoOutcome, pending |-> NoOutcome]

\* the keyword lists of the direct calls of parallel_search, against the target
\* a b c d e: 2 of 5 shared (the threshold exactly), 3 of 5, none, and None
SampleTarget == <<"a", "b", "c", "d", "e">>
CandidateKwds == {PyList(<<"a", "b", "v", "w", "x">>), PyList(<<"a", "b", "c", "w", "x">>),
                  PyList(<<"x">>), None}
TargetKwds == {PyList(SampleTarget), None}

CandidateId(i) == "c" \o ToString(i)

\* the mappings id -> keywords of n candidates, as the sequence of their items
CandidateItems(n) ==
    {[i \in 1..n |-> [id |-> CandidateId(i), kwds |-> k[i]]] :
        k \in [1..n -> CandidateKwds]}

\* a direct call passes the annotated types (a list, a dict) or hashable ones
AsSequence(hashable, s) == IF hashable THEN PyTuple(s) ELSE PyList(s)
AsMapping(hashable, items) == IF hashable THEN PyFrozenMap(items) ELSE PyDict(items)

ExtractionCalls ==
    {[op |-> "parallel_extraction", nodes |-> AsSequence(h, b)] :
        h \in BOOLEAN, b \in UNION {Batches(n) : n \in 0..MaxNodes}}

SearchCalls ==
    {[op |-> "parallel_search",
      single_target_kwds |-> IF t.tag = "None" THEN None ELSE AsSequence(h, t.val),
      nodes_kwds |-> AsMapping(h, c)] :
        h \in BOOLEAN, t \in TargetKwds,
        c \in UNION {CandidateItems(n) : n \in 0..MaxCands}}

InitCommon ==
    /\ trend = NoTrend
    /\ parse_cache = <<>>
    /\ pe_cache = <<>>
    /\ ps_cache = <<>>
    /\ pc = "start"
    /\ ffm = NoFfm
    /\ fetches = <<>>
    /\ pool = NoPool
    /\ submitted = 0
    /\ outcome = NoOutcome
    /\ first = NoOutcome
    /\ ncalls = 1

\* a call of the engine against a store, or a direct call of one of the two
\* concurrent stages
Init ==
    /\ InitCommon
    /\ \/ store \in Stores /\ store_up \in BOOLEAN /\ call \in EngineCalls
       \/ store = <<>> /\ store_up = TRUE /\ call \in ExtractionCalls \cup SearchCalls

-----------------------------------------------------------------------------
(* The graph store (subimtor.py, executor.py) *)

\* QueryExecutor.result(query) of a store that does not answer: the exception of
\* the driver leaves result, which catches nothing
StoreError == Raised("StoreError")

\* Submitor.fetch_most_recent_nodes(limit): ORDER BY timestamp DESC LIMIT limit;
\* the query carries no offset
fetch_most_recent_nodes(limit) == [start |-> 0, limit |-> limit]

\* QueryExecutor.result(query) of a fetch: one record {"n": node} per node
FetchResult(q) ==
    LET last == Min(q.start + q.limit, Len(store))
    IN  [i \in 1..(IF last > q.start THEN last - q.start ELSE 0) |->
            [n |-> store[q.start + i]]]

\* fetch_top_nodes(fetch_limit)
fetch_top_nodes(fetch_limit) ==
    LET result == FetchResult(fetch_most_recent_nodes(fetch_limit))
    IN  IF result = <<>> THEN None
        ELSE PyList([i \in DOMAIN result |-> result[i].n])

\* QueryExecutor.result(Submitor.follow_path_from_root(id, depth)): the nodes within
\* depth hops of the root, the nodes of the store being linked in a chain
FollowPathResult(node_id, depth) ==
    LET root == CHOOSE i \in 0..Len(store) :
                    \/ i = 0 /\ \A j \in DOMAIN store : store[j].id # node_id
                    \/ i > 0 /\ store[i].id = node_id
        Near(j) == j # root /\ j - root <= depth /\ root - j <= depth
        idx == IF root = 0 THEN <<>>
               ELSE SelectSeq([j \in DOMAIN store |-> j], Near)
    IN  [k \in DOMAIN idx |-> [connected |-> store[idx[k]]]]

\* find_related_nodes(node_id, depth)
find_related_nodes(node_id, depth) ==
    LET result == FollowPathResult(node_id, depth)
    IN  IF result = <<>> THEN None
        ELSE PyList([k \in DOMAIN result |-> result[k].connected])

-----------------------------------------------------------------------------
(* The assembly policies (worker.py:226-318) *)

\* make_unrestricted_context, from the outcome of find_first_match on
make_unrestricted_context(anchor) ==
    IF anchor.kind = "raise" THEN anchor
    ELSE IF ~Truthy(anchor.val) THEN Returned(None)
    ELSE IF ~store_up THEN StoreError
    ELSE LET context == find_related_nodes(anchor.val.val, SEARCH_DEPTH)
         IN  IF ~Truthy(context) THEN Returned(None)
             ELSE Returned(PyList([i \in DOMAIN context.val |-> context.val[i].content]))

\* word in c.lower(): the text is lowered, the word is not.  No token of the
\* contents holds a restricted word as a proper part, so that the word is in the
\* text when it is one of its tokens.
ContainsWord(c, word) == \E i \in DOMAIN c : Lower(c[i]) = word

\* make_restricted_context, from the outcome of find_first_match on
make_restricted_context(anchor, restricted_words) ==
    LET context == make_unrestricted_context(anchor)
        Allowed(c) == ~\E w \in DOMAIN restricted_words :
                          ContainsWord(c, restricted_words[w])
    IN  IF context.kind = "raise" THEN context
        ELSE IF ~Truthy(context.val) THEN Returned(None)
        ELSE LET restricted_context == SelectSeq(context.val.val, Allowed)
             IN  IF restricted_context = <<>> THEN Returned(None)
                 ELSE Returned(PyList(restricted_context))

\* filter_context_by_relevance(request, context): the outcome and the cache of
\* cache_parse afterwards.  Iterating over None raises TypeError; match_nodes is
\* called with two arguments where it takes three, which raises TypeError at
\* the first document.
filter_context_by_relevance(cache, request, context) ==
    LET rq == cache_parse(cache, request)
    IN  IF context.tag = "None"
        THEN [out |-> Raised("TypeError"), cache |-> rq.cache]
        ELSE IF context.val = <<>>
        THEN [out |-> Returned(PyList(<<>>)), cache |-> rq.cache]
        ELSE [out |-> Raised("TypeError"),
              cache |-> cache_parse(rq.cache, context.val[1]).cache]

\* context(request, mode, restricted_words), from the outcome of find_first_match
\* on: the outcome and the cache of cache_parse afterwards
ContextAfterAnchor(cache, c, anchor) ==
    IF c.mode = "unrestricted"
    THEN [out |-> make_unrestricted_context(anchor), cache |-> cache]
    ELSE IF c.mode = "restricted"
    THEN [out |-> make_restricted_context(anchor, c.restricted_words), cache |-> cache]
    ELSE LET ctx == make_unrestricted_context(anchor)
         IN  IF ctx.kind = "raise" THEN [out |-> ctx, cache |-> cache]
             ELSE filter_context_by_relevance(cache, c.request, ctx.val)

\* the outcome of the call, from the outcome of find_first_match on
AfterAnchor(cache, c, anchor) ==
    IF c.op = "find_first_match" THEN [out |-> anchor, cache |-> cache]
    ELSE ContextAfterAnchor(cache, c, anchor)

-----------------------------------------------------------------------------
(* How a call ends, and how control returns from a stage to its caller *)

DirectStageCall == call.op \in {"parallel_extraction", "parallel_search"}

Finish(out) ==
    /\ pc' = "done"
    /\ outcome' = out
    /\ first' = IF ncalls = 1 THEN out ELSE first

\* find_first_match ends with anchor (line 202, or an exception leaving it); its
\* callers run to their end
EndSearch(f, anchor) ==
    LET a == AfterAnchor(parse_cache, call, anchor)
    IN  /\ Finish(a.out)
        /\ parse_cache' = a.cache
        /\ ffm' = [f EXCEPT !.result = anchor]

\* lines 195-200: the result of parallel_search back in the loop
FfmAfterSearch(f, result, fetch_limit) ==
    IF Truthy(result) THEN [f EXCEPT !.match = result]
    ELSE [f EXCEPT !.offset = @ + fetch_limit, !.round = @ + 1]

\* the stage fn ("pe": parallel_extraction, "ps": parallel_search) ends with out:
\* a direct call ends; inside find_first_match an exception leaves the loop, the
\* keyword map goes to parallel_search (line 194), a match ends the loop and no
\* match starts the next round
Deliver(fn, out) ==
    IF DirectStageCall
    THEN Finish(out) /\ UNCHANGED <<ffm, parse_cache>>
    ELSE IF out.kind = "return" /\ fn = "pe"
    THEN /\ ffm' = [ffm EXCEPT !.nodes_kwds = out.val]
         /\ pc' = "call_ps"
         /\ UNCHANGED <<outcome, first, parse_cache>>
    ELSE LET f == IF out.kind = "raise" THEN ffm
                  ELSE FfmAfterSearch(ffm, out.val, call.fetch_limit)
         IN  IF out.kind = "raise" \/ Truthy(f.match)
             THEN EndSearch(f, IF out.kind = "raise" THEN out ELSE Returned(f.match))
             ELSE /\ ffm' = f
                  /\ pc' = "ffm_loop"
                  /\ UNCHANGED <<outcome, first, parse_cache>>

-----------------------------------------------------------------------------
(* The engine: context and find_first_match *)

\* find_first_match, lines 180-184
FfmEnter ==
    LET cp == cache_parse(parse_cache, call.request)
    IN  /\ ffm' = [NoFfm EXCEPT !.round = 1, !.target_kwds = cp.val]
        /\ parse_cache' = cp.cache
        /\ pc' = "ffm_loop"
        /\ UNCHANGED <<outcome, first>>

\* ContextCall with the test of the mode after the search: find_first_match runs
\* for every mode
ContextCall_ModeTestLast ==
    /\ pc = "start"
    /\ call.op = "context"
    /\ FfmEnter
    /\ UNCHANGED <<store, store_up, trend, pe_cache, ps_cache, call, fetches, pool, submitted, ncalls>>

\* context(request, mode, restricted_words), lines 310-318: every valid mode starts
\* with make_unrestricted_context, which starts with find_first_match
ContextCall ==
    /\ pc = "start"
    /\ call.op = "context"
    /\ IF call.mode \in {"unrestricted", "restricted", "filtered"}
       THEN FfmEnter
       ELSE Finish(Raised("ValueError")) /\ UNCHANGED <<ffm, parse_cache>>
    /\ UNCHANGED <<store, store_up, trend, pe_cache, ps_cache, call, fetches, pool, submitted, ncalls>>

\* find_first_match(request, fetch_limit) called directly
FindFirstMatchCall ==
    /\ pc = "start"
    /\ call.op = "find_first_match"
    /\ FfmEnter
    /\ UNCHANGED <<store, store_up, trend, pe_cache, ps_cache, call, fetches, pool, submitted, ncalls>>

\* FfmRound without the test of line 189: the page goes to parallel_extraction
\* whether it is empty or not
FfmRound_NoEmptyTest ==
    /\ pc = "ffm_loop"
    /\ fetches' = Append(fetches, fetch_most_recent_nodes(call.fetch_limit))
    /\ IF ~store_up
       THEN EndSearch(ffm, StoreError)
       ELSE /\ ffm' = [ffm EXCEPT !.nodes = fetch_top_nodes(call.fetch_limit)]
            /\ pc' = "call_pe"
            /\ UNCHANGED <<outcome, first, parse_cache>>
    /\ UNCHANGED <<store, store_up, trend, pe_cache, ps_cache, call, pool, submitted, ncalls>>

\* FfmRound with the query of line 162 in a try block whose handler returns None:
\* a store that does not answer looks like an empty page
FfmRound_FailureIsEmptyPage ==
    /\ pc = "ffm_loop"
    /\ LET nodes == IF store_up THEN fetch_top_nodes(call.fetch_limit) ELSE None
       IN  /\ fetches' = Append(fetches, fetch_most_recent_nodes(call.fetch_limit))
           /\ IF ~Truthy(nodes)
              THEN EndSearch(ffm, Returned(None))
              ELSE /\ ffm' = [ffm EXCEPT !.nodes = nodes]
                   /\ pc' = "call_pe"
                   /\ UNCHANGED <<outcome, first, parse_cache>>
    /\ UNCHANGED <<store, store_up, trend, pe_cache, ps_cache, call, pool, submitted, ncalls>>

\* one round of the loop, lines 186-192: fetch a page (the exception of a store
\* that does not answer leaves the loop and its callers); leave the loop on an
\* empty page (line 202 returns None, match being None); otherwise call
\* parallel_extraction with the page
FfmRound ==
    /\ pc = "ffm_loop"
    /\ LET nodes == fetch_top_nodes(call.fetch_limit)
       IN  /\ fetches' = Append(fetches, fetch_most_recent_nodes(call.fetch_limit))
           /\ IF ~store_up \/ ~Truthy(nodes)
              THEN EndSearch(ffm, IF store_up THEN Returned(None) ELSE StoreError)
              ELSE /\ ffm' = [ffm EXCEPT !.nodes = nodes]
                   /\ pc' = "call_pe"
                   /\ UNCHANGED <<outcome, first, parse_cache>>
    /\ UNCHANGED <<store, store_up, trend, pe_cache, ps_cache, call, pool, submitted, ncalls>>

-----------------------------------------------------------------------------
(* The two concurrent stages *)

Submit(fn, args, items) ==
    [fn |-> fn, args |-> args,
     tasks |-> [i \in DOMAIN items |->
                   [arg |-> items[i], state |-> "queued", res |-> NoOutcome]],
     completed |-> <<>>, iterating |-> FALSE, early |-> {}, handed |-> <<>>,
     observed |-> NoOutcome, pending |-> NoOutcome]

\* parallel_extraction(nodes), lines 103-119: the lru_cache wrapper hashes the
\* arguments (TypeError for a list), returns a stored value, or runs the body,
\* which submits one cache_parse task per node (iterating over None raises
\* TypeError)
ParallelExtractionCall ==
    /\ pc = IF call.op = "parallel_extraction" THEN "start" ELSE "call_pe"
    /\ LET nodes == IF call.op = "parallel_extraction" THEN call.nodes ELSE ffm.nodes
           key == <<nodes>>
           hit == Hashable(nodes) /\ CacheIndex(pe_cache, key) # 0
           early == IF ~Hashable(nodes) THEN Raised("TypeError")
                    ELSE IF hit THEN Returned(pe_cache[CacheIndex(pe_cache, key)].v)
                    ELSE IF nodes.tag = "None" THEN Raised("TypeError")
                    ELSE NoOutcome
       IN  IF early # NoOutcome
           THEN /\ Deliver("pe", early)
                /\ pe_cache' = IF hit THEN LruTouch(pe_cache, key) ELSE pe_cache
                /\ UNCHANGED <<pool, submitted>>
           ELSE /\ pool' = Submit("pe", key, nodes.val)
                /\ submitted' = submitted + Len(nodes.val)
                /\ pc' = "pool"
                /\ UNCHANGED <<outcome, first, ffm, parse_cache, pe_cache>>
    /\ UNCHANGED <<store, store_up, trend, ps_cache, call, fetches, ncalls>>

\* parallel_search(single_target_kwds, nodes_kwds), lines 127-142: the same wrapper
\* (TypeError for a list or a dict); the body submits one match_nodes task per item
ParallelSearchCall ==
    /\ pc = IF call.op = "parallel_search" THEN "start" ELSE "call_ps"
    /\ LET target == IF call.op = "parallel_search" THEN call.single_target_kwds
                     ELSE ffm.target_kwds
           nodes_kwds == IF call.op = "parallel_search" THEN call.nodes_kwds
                         ELSE ffm.nodes_kwds
           key == <<target, nodes_kwds>>
           hashable == Hashable(target) /\ Hashable(nodes_kwds)
           hit == hashable /\ CacheIndex(ps_cache, key) # 0
           early == IF ~hashable THEN Raised("TypeError")
                    ELSE IF hit THEN Returned(ps_cache[CacheIndex(ps_cache, key)].v)
                    ELSE IF nodes_kwds.tag = "None" THEN Raised("AttributeError")
                    ELSE NoOutcome
       IN  IF early # NoOutcome
           THEN /\ Deliver("ps", early)
                /\ ps_cache' = IF hit THEN LruTouch(ps_cache, key) ELSE ps_cache
                /\ UNCHANGED <<pool, submitted>>
           ELSE /\ pool' = Submit("ps", key, nodes_kwds.val)
                /\ submitted' = submitted + Len(nodes_kwds.val)
                /\ pc' = "pool"
                /\ UNCHANGED <<outcome, first, ffm, parse_cache, ps_cache>>
    /\ UNCHANGED <<store, store_up, trend, pe_cache, call, fetches, ncalls>>

InState(st) == {i \in DOMAIN pool.tasks : pool.tasks[i].state = st}

\* a worker thread takes the oldest queued task; max_workers threads at most
TaskStart ==
    /\ pc = "pool"
    /\ InState("queued") # {}
    /\ Cardinality(InState("running")) < max_workers
    /\ LET i == CHOOSE j \in InState("queued") : \A k \in InState("queued") : j <= k
       IN  pool' = [pool EXCEPT !.tasks[i].state = "running"]
    /\ UNCHANGED <<store, store_up, trend, parse_cache, pe_cache, ps_cache, call, pc, ffm, fetches,
                   submitted, outcome, first, ncalls>>

Completed(i, res) ==
    [pool EXCEPT !.tasks[i].state = "done", !.tasks[i].res = res,
                 !.completed = Append(@, i)]

\* a task of parallel_extraction ends: cache_parse(node.get("content"))
ExtractionTaskFinish ==
    /\ pc = "pool"
    /\ pool.fn = "pe"
    /\ \E i \in InState("running") :
          LET cp == cache_parse(parse_cache, pool.tasks[i].arg.content)
          IN  /\ pool' = Completed(i, Returned(cp.val))
              /\ parse_cache' = cp.cache
    /\ UNCHANGED <<store, store_up, trend, pe_cache, ps_cache, call, pc, ffm, fetches, submitted,
                   outcome, first, ncalls>>

\* a task of parallel_search ends: match_nodes(id, single_target_kwds, node_kwds)
SearchTaskFinish ==
    /\ pc = "pool"
    /\ pool.fn = "ps"
    /\ \E i \in InState("running") :
          pool' = Completed(i, match_nodes(pool.tasks[i].arg.id, pool.args[1],
                                           pool.tasks[i].arg.kwds))
    /\ UNCHANGED <<store, store_up, trend, parse_cache, pe_cache, ps_cache, call, pc, ffm, fetches,
                   submitted, outcome, first, ncalls>>

\* as_completed(futures_) is called (lines 120, 144): the futures that are
\* finished by then are set apart, to be handed out first
AsCompletedCall ==
    /\ pc = "pool"
    /\ ~pool.iterating
    /\ pool' = [pool EXCEPT !.iterating = TRUE, !.early = InState("done")]
    /\ UNCHANGED <<store, store_up, trend, parse_cache, pe_cache, ps_cache, call, pc, ffm, fetches,
                   submitted, outcome, first, ncalls>>

\* the futures as_completed can hand out next: any of those that were finished
\* when it was called (it keeps them in a set), and after them the others in the
\* order they complete in
NextHanded(p) ==
    LET handed == SeqToSet(p.handed)
        left == {k \in DOMAIN p.completed : p.completed[k] \notin handed}
    IN  IF p.early \ handed # {} THEN p.early \ handed
        ELSE {p.completed[k] : k \in {m \in left : \A l \in left : m <= l}}

\* line 120: kwds = [fx.results() for fx in as_completed(futures_)].  A Future has
\* no attribute results: the first future handed out raises AttributeError.  With
\* no future the list is empty, lines 122-125 add nothing and {} is returned.
ExtractionCollect ==
    /\ pc = "pool"
    /\ pool.fn = "pe"
    /\ pool.iterating
    /\ pool.pending = NoOutcome
    /\ IF pool.tasks = <<>>
       THEN pool' = [pool EXCEPT !.pending = Returned(PyDict(<<>>))]
       ELSE \E i \in NextHanded(pool) :
               pool' = [pool EXCEPT !.handed = Append(@, i),
                                    !.pending = Raised("AttributeError")]
    /\ UNCHANGED <<store, store_up, trend, parse_cache, pe_cache, ps_cache, call, pc, ffm, fetches,
                   submitted, outcome, first, ncalls>>

\* executor.shutdown(wait=True, cancel_futures=True): the queued tasks are cancelled
CancelQueued(tasks) ==
    [i \in DOMAIN tasks |->
        IF tasks[i].state = "queued" THEN [tasks[i] EXCEPT !.state = "cancelled"]
        ELSE tasks[i]]

\* lines 144-146: as_completed hands out a future; fx.result() re-raises the
\* task's exception; a result that is not None ends the loop
SearchConsume ==
    /\ pc = "pool"
    /\ pool.fn = "ps"
    /\ pool.iterating
    /\ pool.pending = NoOutcome
    /\ pool.observed = NoOutcome
    /\ \E i \in NextHanded(pool) :
          LET result == pool.tasks[i].res
          IN  pool' = IF result.kind = "raise"
                      THEN [pool EXCEPT !.handed = Append(@, i), !.pending = result]
                      ELSE IF result.val # None
                      THEN [pool EXCEPT !.handed = Append(@, i), !.observed = result]
                      ELSE [pool EXCEPT !.handed = Append(@, i)]
    /\ UNCHANGED <<store, store_up, trend, parse_cache, pe_cache, ps_cache, call, pc, ffm, fetches,
                   submitted, outcome, first, ncalls>>

\* lines 147-148: executor.shutdown(wait=True, cancel_futures=True) cancels the
\* tasks that are still queued when it runs, and the result is returned; the
\* worker threads take tasks from the queue until then
SearchShutdown ==
    /\ pc = "pool"
    /\ pool.fn = "ps"
    /\ pool.observed # NoOutcome
    /\ pool.pending = NoOutcome
    /\ pool' = [pool EXCEPT !.tasks = CancelQueued(@), !.pending = pool.observed]
    /\ UNCHANGED <<store, store_up, trend, parse_cache, pe_cache, ps_cache, call, pc, ffm, fetches,
                   submitted, outcome, first, ncalls>>

\* line 149: every future handed out, none with a result: return None
SearchExhausted ==
    /\ pc = "pool"
    /\ pool.fn = "ps"
    /\ pool.iterating
    /\ pool.pending = NoOutcome
    /\ pool.observed = NoOutcome
    /\ Len(pool.handed) = Len(pool.tasks)
    /\ pool' = [pool EXCEPT !.pending = Returned(None)]
    /\ UNCHANGED <<store, store_up, trend, parse_cache, pe_cache, ps_cache, call, pc, ffm, fetches,
                   submitted, outcome, first, ncalls>>

\* the with block is left: shutdown(wait=True) waits for every task that was not
\* cancelled; a value returned is stored by the lru_cache wrapper, an exception is not
PoolExit ==
    /\ pc = "pool"
    /\ pool.pending # NoOutcome
    /\ InState("queued") \cup InState("running") = {}
    /\ Deliver(pool.fn, pool.pending)
    /\ pe_cache' = IF pool.fn = "pe" /\ pool.pending.kind = "return"
                   THEN LruInsert(pe_cache, pool.args, pool.pending.val)
                   ELSE pe_cache
    /\ ps_cache' = IF pool.fn = "ps" /\ pool.pending.kind = "return"
                   THEN LruInsert(ps_cache, pool.args, pool.pending.val)
                   ELSE ps_cache
    /\ UNCHANGED <<store, store_up, trend, call, fetches, pool, submitted, ncalls>>

-----------------------------------------------------------------------------
(* The caller *)

\* the caller makes the same call again, the caches being what the calls before
\* left
Repeat ==
    /\ pc = "done"
    /\ ncalls < MaxCalls
    /\ pc' = "start"
    /\ ncalls' = ncalls + 1
    /\ ffm' = NoFfm
    /\ fetches' = <<>>
    /\ pool' = NoPool
    /\ submitted' = 0
    /\ outcome' = NoOutcome
    /\ UNCHANGED <<store, store_up, trend, parse_cache, pe_cache, ps_cache, call, first>>

Next ==
    \/ ContextCall
    \/ FindFirstMatchCall
    \/ FfmRound
    \/ ParallelExtractionCall
    \/ ParallelSearchCall
    \/ TaskStart
    \/ ExtractionTaskFinish
    \/ SearchTaskFinish
    \/ AsCompletedCall
    \/ ExtractionCollect
    \/ SearchConsume
    \/ SearchShutdown
    \/ SearchExhausted
    \/ PoolExit
    \/ Repeat

Spec == Init /\ [][Next]_vars

-----------------------------------------------------------------------------
(* The functions called on their own: kwds_similarity (ops.py),
   filter_context_by_relevance (worker.py:270-290) and Parser.parse (parser.py) *)

InitFunctions ==
    /\ InitCommon
    /\ store = <<>>
    /\ store_up = TRUE
    /\ call \in SimilarityCalls \cup FilterCalls \cup ParseCalls

\* kwds_similarity(*kwds)
KwdsSimilarityCall ==
    /\ pc = "start"
    /\ call.op = "kwds_similarity"
    /\ Finish(kwds_similarity(call.kwds))
    /\ UNCHANGED <<store, store_up, trend, parse_cache, pe_cache, ps_cache, call, ffm, fetches,
                   pool, submitted, ncalls>>

\* filter_context_by_relevance(request, context)
FilterContextCall ==
    /\ pc = "start"
    /\ call.op = "filter_context_by_relevance"
    /\ LET f == filter_context_by_relevance(parse_cache, call.request, call.context)
       IN  Finish(f.out) /\ parse_cache' = f.cache
    /\ UNCHANGED <<store, store_up, trend, pe_cache, ps_cache, call, ffm, fetches, pool,
                   submitted, ncalls>>

\* Parser.parse(qx, nlp)
ParseCall ==
    /\ pc = "start"
    /\ call.op = "parse"
    /\ Finish(Returned(parse(call.qx)))
    /\ UNCHANGED <<store, store_up, trend, parse_cache, pe_cache, ps_cache, call, ffm, fetches,
                   pool, submitted, ncalls>>

NextFunctions ==
    \/ KwdsSimilarityCall
    \/ FilterContextCall
    \/ ParseCall

SpecFunctions == InitFunctions /\ [][NextFunctions]_vars

-----------------------------------------------------------------------------
(* cache_parse called over and over (worker.py:70-86): call.texts are the texts
   passed so far, the last one being the argument of the call under way *)

InitCache ==
    /\ InitCommon
    /\ store = <<>>
    /\ store_up = TRUE
    /\ call = [op |-> "cache_parse", texts |-> <<FillText(1)>>]

\* cache_parse(qx)
CacheParseCall ==
    /\ pc = "start"
    /\ call.op = "cache_parse"
    /\ LET cp == cache_parse(parse_cache, call.texts[ncalls])
       IN  Finish(Returned(cp.val)) /\ parse_cache' = cp.cache
    /\ UNCHANGED <<store, store_up, trend, pe_cache, ps_cache, call, ffm, fetches, pool,
                   submitted, ncalls>>

\* the caller calls cache_parse again: with a text not passed before until the
\* cache is one short of full, with any of CacheTexts afterwards
NextCacheParse ==
    /\ pc = "done"
    /\ call.op = "cache_parse"
    /\ ncalls < CACHE_SIZE - 1 + MaxCacheCalls
    /\ \E t \in IF ncalls < CACHE_SIZE - 1 THEN {FillText(ncalls + 1)} ELSE CacheTexts :
          call' = [call EXCEPT !.texts = Append(@, t)]
    /\ ncalls' = ncalls + 1
    /\ pc' = "start"
    /\ outcome' = NoOutcome
    /\ UNCHANGED <<store, store_up, trend, parse_cache, pe_cache, ps_cache, ffm, fetches, pool,
                   submitted, first>>

NextCache ==
    \/ CacheParseCall
    \/ NextCacheParse

SpecCache == InitCache /\ [][NextCache]_vars

-----------------------------------------------------------------------------
(* The trends fetcher (trends/engine.py, trends/static.py).  The sleeps of the
   retry wrapper (engine.py:116-122) end and change no variable: they are left
   out. *)

InitTrends ==
    /\ InitCommon
    /\ store = <<>>
    /\ store_up = TRUE
    /\ call \in TrendCalls

\* pytrends.related_queries(): one entry per keyword of the payload
ServiceData(keywords) ==
    PyDict([i \in DOMAIN keywords |-> [key |-> keywords[i], val |-> "queries"]])

\* _related_queries_payload() when the service answers r
PayloadOutcome(r, keywords) ==
    IF r = "data" THEN Returned(ServiceData(keywords))
    ELSE IF r = "empty" THEN Returned(PyDict(<<>>))
    ELSE Raised(r)

\* lines 216-221: format_to_json of every value of a result that is not empty
GetTrendsReturn(result) ==
    IF Truthy(result)
    THEN Returned(PyDict([i \in DOMAIN result.val |->
                            [key |-> result.val[i].key, val |-> "json"]]))
    ELSE Returned(PyDict(<<>>))

\* WrapperEnds with the test of line 113 one attempt late
WrapperEnds_OneMore(attempt, r) ==
    r # "TooManyRequestsError" \/ attempt > call.retries

\* the wrapper of retry ends with the answer r of its call of func: every answer
\* but TooManyRequestsError leaves it (line 110 returns, another exception is not
\* caught), and TooManyRequestsError is raised again at the last attempt (113-114)
WrapperEnds(attempt, r) ==
    r # "TooManyRequestsError" \/ attempt = call.retries

\* RotationExhausted without the test of line 201
RotationExhausted_Never(explored) == FALSE

\* line 201: every key of KEYWORDS_MAP has been explored
RotationExhausted(explored) == Len(explored) = Len(call.map)

\* reload_kwds(kwds), lines 73-89: the lists it can return, start and end being
\* two random elements of kwds that differ
reload_kwds(kwds) ==
    LET Index(v) == CHOOSE i \in DOMAIN kwds :
                        kwds[i] = v /\ \A j \in 1..(i - 1) : kwds[j] # v
        Slice(i, j) == SubSeq(kwds, Min(i, j), i + j - Min(i, j))
        words == SeqToSet(kwds)
    IN  {Slice(Index(p[1]), Index(p[2])) : p \in {q \in words \X words : q[1] # q[2]}}

\* get_next_key(map, iteration): keys[iteration]
get_next_key(map, iteration) ==
    IF iteration < Len(map) THEN Returned(map[iteration + 1].key)
    ELSE Raised("IndexError")

\* except cls: whether the clause catches the exception exc
Caught(exc, cls) ==
    exc = cls \/ (call.subclass /\ exc = "TooManyRequestsError" /\ cls = "ResponseError")

\* get_trends, from the end of a call of related_queries_payload on: where the
\* call goes (pc), the engine, and how get_trends ends when it does.  An exception
\* raised in a handler (lines 175, 193) is caught by the try of that handler alone.
AfterPayload(t, out) ==
    LET return == [pc |-> "done", trend |-> t, out |-> GetTrendsReturn(t.result)]
        raise == [pc |-> "done", trend |-> t, out |-> out]
    IN  IF out.kind = "return"
        THEN [pc |-> "done", trend |-> [t EXCEPT !.result = out.val],
              out |-> GetTrendsReturn(out.val)]
        ELSE IF t.where = "first"
        THEN IF Caught(out.exc, "TooManyRequestsError")
             THEN [pc |-> "reload", trend |-> t, out |-> NoOutcome]
             ELSE IF Caught(out.exc, "ResponseError")
             THEN [pc |-> "rotate", trend |-> t, out |-> NoOutcome]
             ELSE raise
        ELSE IF t.where = "shrunk"
        THEN IF Caught(out.exc, "TooManyRequestsError") THEN return ELSE raise
        ELSE IF ~Caught(out.exc, "ResponseError") THEN raise
        ELSE IF RotationExhausted(t.explored) THEN return
        ELSE [pc |-> "rotate", trend |-> [t EXCEPT !.iteration = @ + 1], out |-> NoOutcome]

\* get_trends(), lines 165-167: the first call of related_queries_payload
GetTrendsCall ==
    /\ pc = "start"
    /\ call.op = "get_trends"
    /\ trend' = [NoTrend EXCEPT !.keywords = call.keywords, !.where = "first"]
    /\ pc' = "payload"
    /\ UNCHANGED <<store, store_up, parse_cache, pe_cache, ps_cache, call, ffm, fetches,
                   pool, submitted, outcome, first, ncalls>>

\* one turn of the loop of the wrapper (lines 108-123): func is called and the
\* service answers; the wrapper goes on to the next attempt or ends, and
\* get_trends goes on from where it called the wrapper
Payload ==
    /\ pc = "payload"
    /\ \E r \in Responses :
          LET sent == Append(trend.sent, r)
              out == PayloadOutcome(r, trend.keywords)
              ended == [trend EXCEPT
                          !.attempt = 0, !.sent = <<>>,
                          !.wrappers = Append(@, [where |-> trend.where,
                                                  keywords |-> trend.keywords,
                                                  sent |-> sent, out |-> out])]
              after == AfterPayload(ended, out)
          IN  IF ~WrapperEnds(trend.attempt, r)
              THEN /\ trend' = [trend EXCEPT !.attempt = @ + 1, !.sent = sent]
                   /\ UNCHANGED <<pc, outcome, first>>
              ELSE /\ trend' = after.trend
                   /\ pc' = after.pc
                   /\ outcome' = after.out
                   /\ first' = after.out
    /\ UNCHANGED <<store, store_up, parse_cache, pe_cache, ps_cache, call, ffm, fetches,
                   pool, submitted, ncalls>>

\* lines 173-175: self.keywords = reload_kwds(), called without an argument, so
\* with DEFAULT_KEYWORDS; then the second call of related_queries_payload
ReloadKwds ==
    /\ pc = "reload"
    /\ \E kwds \in reload_kwds(DEFAULT_KEYWORDS) :
          trend' = [trend EXCEPT !.keywords = kwds, !.where = "shrunk"]
    /\ pc' = "payload"
    /\ UNCHANGED <<store, store_up, parse_cache, pe_cache, ps_cache, call, ffm, fetches,
                   pool, submitted, outcome, first, ncalls>>

\* lines 187-193: the next key of KEYWORDS_MAP, its keywords, and the call of
\* related_queries_payload with them
Rotate ==
    /\ pc = "rotate"
    /\ LET key == get_next_key(call.map, trend.iteration)
       IN  IF key.kind = "raise"
           THEN Finish(key) /\ UNCHANGED trend
           ELSE /\ trend' = [trend EXCEPT
                               !.explored = IF key.val \in SeqToSet(@) THEN @
                                            ELSE Append(@, key.val),
                               !.keywords = call.map[trend.iteration + 1].kwds,
                               !.where = "rotate"]
                /\ pc' = "payload"
                /\ UNCHANGED <<outcome, first>>
    /\ UNCHANGED <<store, store_up, parse_cache, pe_cache, ps_cache, call, ffm, fetches,
                   pool, submitted, ncalls>>

NextTrends ==
    \/ GetTrendsCall
    \/ Payload
    \/ ReloadKwds
    \/ Rotate

SpecTrends == InitTrends /\ [][NextTrends]_vars

\* get_trends with a service that answers every request, in time or with an
\* error, and sleeps that end: a call of get_trends that can take a step takes it
SpecTrendsFair == SpecTrends /\ WF_vars(NextTrends)

-----------------------------------------------------------------------------
(* The claims *)

EngineCall == call.op \in {"context", "find_first_match"}
ValidMode == call.mode \in {"unrestricted", "restricted", "filtered"}

\* find_first_match has ended, by a return or by an exception
SearchEnded == EngineCall /\ ffm.result.kind # "none"

\* the similarity of the node's keywords with the request's exceeds the threshold
Matches(request, node) ==
    LET r == kwds_similarity(<<parse(request), parse(node.content)>>)
    IN  r.kind = "return" /\ AboveMatchThreshold(r.val)

SomeNodeMatches == \E i \in DOMAIN store : Matches(call.request, store[i])

\* the store answers the first fetch with no record
FirstPageEmpty ==
    store_up /\ FetchResult(fetch_most_recent_nodes(call.fetch_limit)) = <<>>

\* C1: when no node of the store matches the request, find_first_match ends by
\* returning None (the loop reached an empty page)
C1_ExhaustionReturnsNone ==
    (SearchEnded /\ store_up /\ ~SomeNodeMatches) => ffm.result = Returned(None)

\* C2: when some node of the store matches the request, find_first_match ends by
\* returning an id, never None and never an exception
C2_MatchIsFound ==
    (SearchEnded /\ store_up /\ SomeNodeMatches) =>
        (ffm.result.kind = "return" /\ Truthy(ffm.result.val))

SearchCallDone == call.op = "parallel_search" /\ pc = "done"

\* the score of the candidate against the target exceeds the threshold
CandidateAbove(item) ==
    LET r == kwds_similarity(<<call.single_target_kwds, item.kwds>>)
    IN  r.kind = "return" /\ AboveMatchThreshold(r.val)

\* some candidate, and every score defined (no keyword list is None)
ScoresDefined ==
    /\ call.nodes_kwds.val # <<>>
    /\ call.single_target_kwds # None
    /\ \A i \in DOMAIN call.nodes_kwds.val : call.nodes_kwds.val[i].kwds # None

\* C3: the k-th page a search fetches starts at offset (k-1) * fetch_limit.  No
\* search reaches a second round (the first ends at the empty page or in
\* parallel_extraction), so this holds of the first page alone and settles
\* nothing about the later ones.
C3_PageOffsets ==
    EngineCall =>
        \A k \in DOMAIN fetches : fetches[k].start = (k - 1) * call.fetch_limit

\* C4: parallel_search returns None or the id of a candidate above the threshold,
\* and an id when some candidate is above the threshold
C4_SearchAnswer ==
    (SearchCallDone /\ ScoresDefined) =>
        LET items == call.nodes_kwds.val
        IN  /\ outcome.kind = "return"
            /\ \/ outcome.val = None
               \/ \E i \in DOMAIN items :
                     outcome.val = PyStr(items[i].id) /\ CandidateAbove(items[i])
            /\ (\E i \in DOMAIN items : CandidateAbove(items[i])) => outcome.val # None

\* C5: parallel_search returns None when no candidate's score exceeds the
\* threshold, a score equal to the threshold included
C5_AtThresholdNoMatch ==
    (/\ SearchCallDone
     /\ ScoresDefined
     /\ \A i \in DOMAIN call.nodes_kwds.val : ~CandidateAbove(call.nodes_kwds.val[i]))
        => outcome = Returned(None)

\* C6: for a batch of nodes, parallel_extraction returns a mapping that gives each
\* node's id the keywords of that node's content
C6_ExtractionById ==
    (call.op = "parallel_extraction" /\ pc = "done" /\ call.nodes.val # <<>>) =>
        /\ outcome.kind = "return"
        /\ outcome.val.tag = "dict"
        /\ \A i \in DOMAIN call.nodes.val :
              \E j \in DOMAIN outcome.val.val :
                 /\ outcome.val.val[j].id = call.nodes.val[i].id
                 /\ outcome.val.val[j].kwds = parse(call.nodes.val[i].content)

\* C7: the second of two calls of context with the same arguments against the same
\* store yields the output the first yielded
C7_Idempotent ==
    (call.op = "context" /\ ValidMode /\ store_up /\ pc = "done" /\ ncalls > 1) =>
        (first.kind = "return" /\ outcome = first)

\* C8: in the three modes, context reports that no context is available (the
\* request has no keywords, or no node of the store matches it) by returning None
C8_NoContextIsNone ==
    (/\ call.op = "context" /\ ValidMode /\ store_up /\ pc = "done"
     /\ (parse(call.request) = None \/ ~SomeNodeMatches))
        => outcome = Returned(None)

\* C9: when the request has no keywords, find_first_match returns None without
\* fetching a page and without submitting a task
C9_FailFast ==
    (SearchEnded /\ store_up /\ parse(call.request) = None) =>
        (ffm.result = Returned(None) /\ fetches = <<>> /\ submitted = 0)

\* C10: when the first page of the store is empty, find_first_match submits no task
\* to a worker pool and returns None
C10_EmptyStoreNoTask ==
    (EngineCall /\ FirstPageEmpty) =>
        /\ submitted = 0
        /\ pool = NoPool
        /\ SearchEnded => ffm.result = Returned(None)

\* find_first_match fetched the first page of an empty store and ended
C10_Witness ==
    /\ call.op = "find_first_match"
    /\ FirstPageEmpty
    /\ Len(fetches) = 1
    /\ SearchEnded

\* C11: a store that does not answer ends the call with the exception of the
\* query, which is not the None of "no match"; the query that failed is not sent
\* again, and no search sends more than one fetch per round
C11_StoreFailureIsError ==
    /\ EngineCall => Len(fetches) <= ffm.round
    /\ (SearchEnded /\ ~store_up) =>
          /\ ffm.result = StoreError
          /\ Len(fetches) = 1
          /\ pc = "done" => (outcome = StoreError /\ outcome # Returned(None))

\* context, in one of its modes, sent its fetch to a store that does not answer
C11_Witness ==
    /\ call.op = "context" /\ ValidMode
    /\ ~store_up
    /\ pc = "done"
    /\ Len(fetches) = 1

\* C12: context called with a mode that is none of the three raises ValueError as
\* its first and only step: no text is parsed, no page fetched, no task submitted
C12_InvalidModeRaisesFirst ==
    (call.op = "context" /\ ~ValidMode) =>
        /\ pc \in {"start", "done"}
        /\ pc = "done" => outcome = Raised("ValueError")
        /\ parse_cache = <<>>
        /\ fetches = <<>>
        /\ submitted = 0
        /\ pool = NoPool
        /\ ffm = NoFfm

\* context was called with the mode "other" and has ended
C12_Witness ==
    /\ call.op = "context" /\ ~ValidMode
    /\ pc = "done"
    /\ outcome = Raised("ValueError")

\* the contents of the nodes the depth-2 expansion from the anchor returns, in the
\* order of the store's answer; None when the expansion returns nothing
ExpansionContents(anchor_id) ==
    LET related == find_related_nodes(anchor_id, SEARCH_DEPTH)
    IN  IF related = None THEN None
        ELSE PyList([k \in DOMAIN related.val |-> related.val[k].content])

\* C13: in unrestricted mode, when some node of the store matches the request,
\* context returns the contents of the expansion from a matching node (None when
\* that expansion is empty)
C13_UnrestrictedContext ==
    (/\ call.op = "context" /\ call.mode = "unrestricted"
     /\ store_up /\ SomeNodeMatches /\ pc = "done")
        => /\ outcome.kind = "return"
           /\ \E i \in DOMAIN store :
                 /\ Matches(call.request, store[i])
                 /\ outcome.val = ExpansionContents(store[i].id)

\* the contents without the strings that hold a restricted word, the letter case
\* of the text and of the word set aside; None when none is left
WithoutRestricted(contents, restricted_words) ==
    IF contents = None THEN None
    ELSE LET Holds(c, w) == \E i \in DOMAIN c : Lower(c[i]) = Lower(w)
             Kept(c) == ~\E w \in DOMAIN restricted_words : Holds(c, restricted_words[w])
             kept == SelectSeq(contents.val, Kept)
         IN  IF kept = <<>> THEN None ELSE PyList(kept)

\* C14: in restricted mode, when some node of the store matches the request,
\* context returns the unrestricted contents without the strings that hold a
\* restricted word in any letter case, in their order, and None when none is left
C14_RestrictedContext ==
    (/\ call.op = "context" /\ call.mode = "restricted"
     /\ store_up /\ SomeNodeMatches /\ pc = "done")
        => /\ outcome.kind = "return"
           /\ \E i \in DOMAIN store :
                 /\ Matches(call.request, store[i])
                 /\ outcome.val = WithoutRestricted(ExpansionContents(store[i].id),
                                                     call.restricted_words)

\* score > FILTER_THRESHOLD
AboveFilterThreshold(score) ==
    score.num * FILTER_THRESHOLD_DEN > FILTER_THRESHOLD_NUM * score.den

\* the similarity of the document's keywords with the request's exceeds the
\* filter threshold
Relevant(request, document) ==
    LET r == kwds_similarity(<<parse(request), parse(document)>>)
    IN  r.kind = "return" /\ AboveFilterThreshold(r.val)

\* C15: the filter of filtered mode returns, of the content strings it is given,
\* those whose similarity with the request exceeds the filter threshold, and
\* drops the others
C15_FilteredContext ==
    (/\ call.op = "filter_context_by_relevance" /\ pc = "done"
     /\ parse(call.request) # None
     /\ Truthy(call.context))
        => LET Keep(document) == Relevant(call.request, document)
           IN  outcome = Returned(PyList(SelectSeq(call.context.val, Keep)))

\* C16: parallel_extraction called with a list of nodes forms its cache key: the
\* call does not end in the TypeError of an unhashable argument
C16_BatchKeyFormed ==
    (call.op = "parallel_extraction" /\ call.nodes.tag = "list" /\ pc = "done")
        => outcome # Raised("TypeError")

\* the texts of the cache_parse calls that have returned, in order
Uses == SubSeq(call.texts, 1, IF pc = "done" THEN ncalls ELSE ncalls - 1)

\* the texts used from the m-th call on
UsedFrom(m) == {Uses[j] : j \in m..Len(Uses)}

\* the CACHE_SIZE texts used most recently (all the texts when there are fewer)
MostRecentlyUsed ==
    LET m == CHOOSE i \in 1..(Len(Uses) + 1) :
                 /\ Cardinality(UsedFrom(i)) <= CACHE_SIZE
                 /\ i > 1 => Cardinality(UsedFrom(i - 1)) > CACHE_SIZE
    IN  UsedFrom(m)

CachedTexts == {parse_cache[i].k : i \in DOMAIN parse_cache}

\* C17: after any sequence of cache_parse calls the cache holds at most CACHE_SIZE
\* entries, one per text, and they are the texts used most recently: what an
\* insert into the full cache drops is the entry used least recently
C17_CacheIsLru ==
    call.op = "cache_parse" =>
        /\ Len(parse_cache) <= CACHE_SIZE
        /\ Cardinality(CachedTexts) = Len(parse_cache)
        /\ CachedTexts = MostRecentlyUsed

\* the full cache has dropped its second entry and kept its first, which a call
\* had used again before the insert
C17_Witness ==
    /\ call.op = "cache_parse"
    /\ pc = "done"
    /\ Len(parse_cache) = CACHE_SIZE
    /\ FillText(1) \in CachedTexts
    /\ FillText(2) \notin CachedTexts
    /\ FillText(CACHE_SIZE + 1) \in CachedTexts

SimilarityCallDone == call.op = "kwds_similarity" /\ pc = "done"

\* every argument is a list
ListsOnly == \A i \in DOMAIN call.kwds : call.kwds[i] # None

\* the call returned the score n/d
ScoreIs(o, n, d) == o.kind = "return" /\ o.val.num * d = n * o.val.den

\* C18: kwds_similarity(A, B) returns the score kwds_similarity(B, A) returns
C18_Symmetric ==
    (SimilarityCallDone /\ ListsOnly /\ Len(call.kwds) = 2) =>
        LET swapped == kwds_similarity(<<call.kwds[2], call.kwds[1]>>)
        IN  /\ outcome.kind = "return"
            /\ swapped.kind = "return"
            /\ ScoreIs(outcome, swapped.val.num, swapped.val.den)

\* kwds_similarity has scored a list of one word against a list of two that
\* holds that word
C18_Witness ==
    /\ SimilarityCallDone
    /\ call.kwds = <<PyList(<<"cat">>), PyList(<<"cat", "dog">>)>>
    /\ ScoreIs(outcome, 1, 1)

\* C19: kwds_similarity returns 0.0 when it is given no list and when one of the
\* lists it is given is empty
C19_EmptyListScoresZero ==
    (/\ SimilarityCallDone /\ ListsOnly
     /\ (call.kwds = <<>> \/ \E i \in DOMAIN call.kwds : call.kwds[i].val = <<>>))
        => ScoreIs(outcome, 0, 1)

\* kwds_similarity has scored an empty list between two lists that share a word
C19_Witness ==
    /\ SimilarityCallDone
    /\ call.kwds = <<PyList(<<"cat">>), PyList(<<>>), PyList(<<"cat", "dog">>)>>
    /\ ScoreIs(outcome, 0, 1)

\* C20: kwds_similarity of one list that is not empty returns 1.0
C20_SelfSimilarityIsOne ==
    (/\ SimilarityCallDone /\ ListsOnly
     /\ Len(call.kwds) = 1 /\ call.kwds[1].val # <<>>)
        => ScoreIs(outcome, 1, 1)

\* the keyword lists with the distinct keywords of the call's, argument by argument
SameKeywordSets ==
    {k \in [DOMAIN call.kwds -> KwdArgs \ {None}] :
        \A i \in DOMAIN call.kwds : SeqToSet(k[i].val) = SeqToSet(call.kwds[i].val)}

\* C21: the score of kwds_similarity is the score of every call whose arguments
\* hold the same distinct keywords, in another order or with words repeated
C21_ScoreOfSetsOnly ==
    (SimilarityCallDone /\ ListsOnly) =>
        \A k \in SameKeywordSets :
            LET other == kwds_similarity(k)
            IN  ScoreIs(outcome, other.val.num, other.val.den)

ParseCallDone == call.op = "parse" /\ pc = "done"

\* the token is alphabetic and, lowered, is no stop word
Survives(tok) == IsAlpha(tok) /\ Lower(tok) \notin StopWords

\* C22: Parser.parse returns None when no token of the text is alphabetic and no
\* stop word, and a list, empty or not, for every other text
C22_NoneIffNothingSurvives ==
    ParseCallDone =>
        /\ outcome.kind = "return"
        /\ outcome.val = None <=> ~\E i \in DOMAIN call.qx : Survives(call.qx[i])
        /\ outcome.val # None => outcome.val.tag = "list"

\* Parser.parse has returned None for a capitalised stop word followed by a number
C22_Witness ==
    /\ ParseCallDone
    /\ call.qx = <<"The", "42">>
    /\ outcome = Returned(None)

\* a is b without some of its elements, the others in their order
RECURSIVE IsSubsequence(_, _)
IsSubsequence(a, b) ==
    IF a = <<>> THEN TRUE
    ELSE IF b = <<>> THEN FALSE
    ELSE IF Head(a) = Head(b) THEN IsSubsequence(Tail(a), Tail(b))
    ELSE IsSubsequence(a, Tail(b))

\* C23: the keywords Parser.parse returns are tokens of the text that are
\* alphabetic and no stop words, in the order they have in the text
C23_KeywordsAreSurvivingTokens ==
    (ParseCallDone /\ outcome.val # None) =>
        IsSubsequence(outcome.val.val, SelectSeq(call.qx, Survives))

\* the calls of the wrapper of TrendEngine.retry that have ended
EndedWrappers == {trend.wrappers[i] : i \in DOMAIN trend.wrappers}

\* C24: the wrapper built by TrendEngine.retry calls the wrapped function at most
\* retries+1 times; the call that succeeds is the first one to do so and the
\* last one made, and its result is what the wrapper returns; when every call
\* raised TooManyRequestsError the wrapper raises it, after exactly retries+1
\* calls, and returns nothing.
C24_WrapperCallsAtMostRetriesPlusOne ==
    /\ call.op = "get_trends" => Len(trend.sent) <= call.retries
    /\ \A w \in EndedWrappers :
          LET n == Len(w.sent)
              rejected == {j \in 1..n : w.sent[j] = "TooManyRequestsError"}
          IN  /\ n \in 1..(call.retries + 1)
              /\ (1..(n - 1)) \subseteq rejected
              /\ w.sent[n] \in {"data", "empty"} =>
                    w.out = PayloadOutcome(w.sent[n], w.keywords) /\ w.out.kind = "return"
              /\ rejected = 1..n =>
                    /\ n = call.retries + 1
                    /\ w.out = Raised("TooManyRequestsError")

\* a wrapper that was rejected at its first call and at each of its retries, and
\* raised the error; and one that returned the result of a retry
C24_Witness ==
    /\ call.op = "get_trends" /\ call.retries = MaxRetries
    /\ \E w \in EndedWrappers :
          Len(w.sent) = MaxRetries + 1 /\ w.out = Raised("TooManyRequestsError")
    /\ \E w \in EndedWrappers :
          Len(w.sent) = 2 /\ w.sent[2] = "data" /\ w.out.kind = "return"

\* the wrapper calls of the rotation loop (line 193), in the order they were made
RotateWrappers ==
    LET InRotation(w) == w.where = "rotate"
    IN  SelectSeq(trend.wrappers, InRotation)

\* the request of a wrapper call was refused as invalid: its exception is one
\* that 'except ResponseError' (line 197) catches
Refused(w) == w.out.kind = "raise" /\ Caught(w.out.exc, "ResponseError")

\* get_trends has ended after its rotation tried every keyword list of
\* KEYWORDS_MAP and each request was refused
RotationFailed ==
    /\ call.op = "get_trends" /\ pc = "done"
    /\ Len(RotateWrappers) = Len(call.map)
    /\ \A i \in DOMAIN RotateWrappers : Refused(RotateWrappers[i])

\* C25: when the request is invalid and the rotation has tried every keyword
\* list of KEYWORDS_MAP without success, get_trends raises ValueError.
C25_ExhaustedRotationRaisesValueError ==
    RotationFailed => outcome = Raised("ValueError")

\* the keywords of the wrapper calls made after the keyword list was reloaded
\* (line 175)
ShrunkKeywords == {w.keywords : w \in {v \in EndedWrappers : v.where = "shrunk"}}

\* sub is made of consecutive elements of kwds, in their order
IsContiguousSublist(sub, kwds) ==
    \E i \in 1..(Len(kwds) + 1) :
        /\ i + Len(sub) - 1 <= Len(kwds)
        /\ \A j \in DOMAIN sub : sub[j] = kwds[i + j - 1]

\* C27: after the request is rejected for too many requests, the keyword list
\* used for the retry is a contiguous sublist of the keywords the engine was
\* using, in the same order, with at least two and strictly fewer elements.
C27_RetryListIsShrunk ==
    call.op = "get_trends" =>
        \A kwds \in ShrunkKeywords :
            /\ IsContiguousSublist(kwds, call.keywords)
            /\ Len(kwds) >= 2
            /\ Len(kwds) < Len(call.keywords)

\* the rotation loop so far: at most one request per key of KEYWORDS_MAP, the
\* keys taken in the order of the map and none past the last one, and no request
\* after one that was not refused
RotationInOrder ==
    call.op = "get_trends" =>
        LET n == Len(call.map)
            k == Len(RotateWrappers)
        IN  /\ k <= n
            /\ trend.iteration < n
            /\ outcome # Raised("IndexError")
            /\ Len(trend.explored) \in {k, k + 1}
            /\ \A j \in DOMAIN trend.explored : trend.explored[j] = call.map[j].key
            /\ \A j \in 1..k : RotateWrappers[j].keywords = call.map[j].kwds
            /\ \A j \in 1..(k - 1) : Refused(RotateWrappers[j])
            /\ (k >= 1 /\ ~Refused(RotateWrappers[k])) => pc = "done"
            /\ (k = n /\ Refused(RotateWrappers[n])) => pc = "done"

\* C28: for a KEYWORDS_MAP of n >= 1 keys the rotation loop entered on
\* ResponseError terminates: it tries the keys in map order, each at most once,
\* stops at the first key whose request is not refused or after the n-th
\* refusal, and never indexes past the last key.
C28_RotationTerminates ==
    /\ []RotationInOrder
    /\ (pc = "rotate") ~> (pc = "done")

\* a rotation over two keys that were both refused, and get_trends has ended
C28_Witness ==
    /\ RotationFailed
    /\ Len(call.map) = MaxKeys
    /\ Len(RotateWrappers) = MaxKeys
    /\ outcome.kind = "return"

\* every answer of the service to a request of this call of get_trends: those of
\* the wrapper calls that ended, and those of the one under way
Answers ==
    UNION {SeqToSet(w.sent) : w \in EndedWrappers} \cup SeqToSet(trend.sent)

\* C29: whatever sequence of TooManyRequestsError and ResponseError failures the
\* service produces, get_trends does not propagate either error: it returns a
\* dictionary.
C29_ServiceErrorsNeverPropagate ==
    (/\ call.op = "get_trends" /\ pc = "done"
     /\ Answers \subseteq {"data", "empty", "TooManyRequestsError", "ResponseError"})
        => outcome.kind = "return" /\ outcome.val.tag = "dict"

\* the futures of p that completed with a result that is not None, in the order
\* they completed in
CompletedMatches(p) ==
    LET IsMatch(i) == p.tasks[i].res.kind = "return" /\ p.tasks[i].res.val # None
    IN  SelectSeq(p.completed, IsMatch)

\* as_completed has handed the futures of p out in the order they completed in
HandedInCompletionOrder(p) ==
    \A k \in DOMAIN p.handed : p.handed[k] = p.completed[k]

\* the result that ends the loop of parallel_search is the id of the task that
\* completed first among those above the threshold
ObservedFirstMatch(p) ==
    p.observed # NoOutcome =>
        p.observed = p.tasks[CompletedMatches(p)[1]].res

\* a step of the pool of parallel_search in which no task that was queued when
\* the result was observed begins to run
NoStartAfterObserved ==
    (pool.observed # NoOutcome /\ pool' # NoPool) =>
        \A i \in DOMAIN pool.tasks :
            pool.tasks[i].state = "queued" => pool'.tasks[i].state # "running"

\* C26: in parallel_search the results are consumed in completion order and the
\* id returned is that of the first-completed task whose score exceeds the
\* threshold; once that result has been observed no task that had not yet
\* started begins executing, and parallel_search returns without waiting for
\* such tasks (none of them is queued or running when it returns).
C26_FirstCompletedMatchEndsTheRace ==
    [][pool.fn = "ps" =>
          /\ HandedInCompletionOrder(pool')
          /\ ObservedFirstMatch(pool')
          /\ NoStartAfterObserved]_vars
====
